---- MODULE Spec2Model ----
(***************************************************************************)
(* Model of src/app.py, a Streamlit script that loads a table, repairs its *)
(* header row, scans it for quality issues and applies user-chosen         *)
(* cleaning transforms.  Every user interaction re-executes the script     *)
(* from the top with the widget values of that moment; an action of this   *)
(* module is one such execution of one section of the script.              *)
(*                                                                         *)
(* Strings that the code takes apart (column names, the header text box)   *)
(* are sequences of one-character strings.                                 *)
(***************************************************************************)
EXTENDS Integers, Sequences, FiniteSets, TLC

VARIABLES
    loaded,            \* the table load_dataset returns (same file every run)
    needs_header_fix,  \* second component of load_dataset's result
    df,                \* the table after the header section of the last run
    hdr,               \* what the header section of the last run did
    report,            \* the findings check_data_quality returned in the last run
    ui,                \* the widget values of the Clean & Export tab
    run,               \* what the last run of the Clean & Export tab produced
    steps              \* interactions with the tab so far

vars == <<loaded, needs_header_fix, df, hdr, report, ui, run, steps>>
tabvars == <<ui, run, steps>>

(***************************************************************************)
(* Bounds of the model.                                                    *)
(***************************************************************************)
MaxCols == 3
MaxInputLen == 3
ScanRows == 3
RetypeRows == 2
MaxSteps == 2

(***************************************************************************)
(* Strings                                                                 *)
(***************************************************************************)
SeqsUpTo(S, n) == UNION {[1..k -> S] : k \in 0..n}

Digits == {"0", "1", "2", "3", "4", "5", "6", "7", "8", "9"}

DigitChar(i) == <<"0", "1", "2", "3", "4", "5", "6", "7", "8", "9">>[i + 1]

Whitespace == {" "}

\* str.lower(), on the characters the model uses
Lower(c) ==
    CASE c = "U" -> "u"
      [] c = "N" -> "n"
      [] c = "A" -> "a"
      [] c = "M" -> "m"
      [] c = "E" -> "e"
      [] c = "D" -> "d"
      [] c = "X" -> "x"
      [] OTHER -> c

LowerStr(s) == [i \in 1..Len(s) |-> Lower(s[i])]

StartsWith(s, p) == Len(s) >= Len(p) /\ SubSeq(s, 1, Len(p)) = p

\* str.isdigit(): non-empty and every character a digit
IsDigit(s) == Len(s) > 0 /\ \A i \in 1..Len(s) : s[i] \in Digits

RECURSIVE Split(_)
\* s.split(","): k commas give k + 1 tokens, the empty string gives one
Split(s) ==
    IF s = <<>> THEN << <<>> >>
    ELSE IF Head(s) = "," THEN << <<>> >> \o Split(Tail(s))
    ELSE LET r == Split(Tail(s)) IN << <<Head(s)>> \o r[1] >> \o Tail(r)

RECURSIVE LStrip(_)
LStrip(s) ==
    IF s # <<>> /\ Head(s) \in Whitespace THEN LStrip(Tail(s)) ELSE s

RECURSIVE RStrip(_)
RStrip(s) ==
    IF s # <<>> /\ s[Len(s)] \in Whitespace
    THEN RStrip(SubSeq(s, 1, Len(s) - 1)) ELSE s

\* h.strip()
Strip(s) == RStrip(LStrip(s))

RECURSIVE Join(_)
\* ",".join(parts)
Join(parts) ==
    IF parts = <<>> THEN <<>>
    ELSE IF Len(parts) = 1 THEN parts[1]
    ELSE parts[1] \o <<",">> \o Join(Tail(parts))

(***************************************************************************)
(* Column names.  A pandas column label is a string or (header=None, or a  *)
(* numeric header cell) an integer; s is what str(col) returns.            *)
(***************************************************************************)
StrName(s) == [int |-> FALSE, s |-> s]
IntName(i) == [int |-> TRUE, s |-> <<DigitChar(i)>>]
Str(col) == col.s

UnnamedPrefix == <<"u", "n", "n", "a", "m", "e", "d">>

\* names a loaded file can carry
NamePool ==
    { StrName(<<"U", "n", "n", "a", "m", "e", "d", ":", " ", "0">>),
      StrName(<<"U", "N", "N", "A", "M", "E", "D">>),
      StrName(<<"u", "n", "n", "a", "m", "e">>),
      StrName(<<"x", "u", "n", "n", "a", "m", "e", "d">>),
      StrName(<<"1", "2">>),
      StrName(<<"1", "a">>),
      StrName(<<"a">>),
      StrName(<<>>),
      IntName(7) }

(***************************************************************************)
(* Cells.  k is the Python type of the cell object ("nan" is the float NaN *)
(* and "none" is None, the two missing sentinels pandas knows); a number   *)
(* is the fraction n/d in lowest terms, a string is its characters s.      *)
(***************************************************************************)
RECURSIVE GCD(_, _)
GCD(a, b) == IF b = 0 THEN a ELSE GCD(b, a % b)

Abs(x) == IF x < 0 THEN -x ELSE x

Frac(n, d) ==
    LET g == GCD(Abs(n), d) IN [n |-> n \div g, d |-> d \div g]

IntCell(i) == [k |-> "int", n |-> i, d |-> 1, s |-> <<>>]
FloatCell(n, d) == [k |-> "float", n |-> Frac(n, d).n, d |-> Frac(n, d).d, s |-> <<>>]
BoolCell(b) == [k |-> "bool", n |-> IF b THEN 1 ELSE 0, d |-> 1, s |-> <<>>]
StrCell(s) == [k |-> "str", n |-> 0, d |-> 1, s |-> s]
NaN == [k |-> "nan", n |-> 0, d |-> 1, s |-> <<>>]
None == [k |-> "none", n |-> 0, d |-> 1, s |-> <<>>]

\* pd.isnull on one cell
IsNull(c) == c.k \in {"nan", "none", "na", "nat"}

IsNumber(c) == c.k \in {"int", "float", "bool"}

\* type(cell): NaN is a float object, None is the only NoneType object
TypeOf(c) ==
    CASE c.k = "nan" -> "float"
      [] c.k = "none" -> "NoneType"
      [] OTHER -> c.k

\* Equality of two cells as pandas' hash tables see it: Python ==, with the
\* missing sentinels equal to each other.
ValueEq(a, b) ==
    \/ IsNull(a) /\ IsNull(b)
    \/ IsNumber(a) /\ IsNumber(b) /\ a.n = b.n /\ a.d = b.d
    \/ a.k = "str" /\ b.k = "str" /\ a.s = b.s

(***************************************************************************)
(* Tables: column labels, the pandas dtype of every column, and rows.      *)
(***************************************************************************)
Table(columns, dtypes, rows) ==
    [columns |-> columns, dtypes |-> dtypes, rows |-> rows]

NCols(t) == Len(t.columns)
NRows(t) == Len(t.rows)
Column(t, c) == [r \in 1..NRows(t) |-> t.rows[r][c]]

\* df.columns = headers
SetColumns(t, headers) == [t EXCEPT !.columns = headers]

headers_suspect_any(t) ==
    \E i \in 1..NCols(t) :
        \/ StartsWith(LowerStr(Str(t.columns[i])), UnnamedPrefix)
        \/ IsDigit(Str(t.columns[i]))

headers_suspect(t) ==
    \A i \in 1..NCols(t) :
        \/ StartsWith(LowerStr(Str(t.columns[i])), UnnamedPrefix)
        \/ IsDigit(Str(t.columns[i]))

(***************************************************************************)
(* The header section of the script (lines 120-163).                       *)
(***************************************************************************)
\* [f"Column_{i}" for i in range(df.shape[1])]
ColumnI(i) == <<"C", "o", "l", "u", "m", "n", "_", DigitChar(i)>>
DefaultHeaders(t) == [i \in 1..NCols(t) |-> ColumnI(i - 1)]

\* [h.strip() for h in header_input.split(",")]
Headers(header_input) ==
    LET toks == Split(header_input)
    IN [i \in 1..Len(toks) |-> StrName(Strip(toks[i]))]

CountMatches_atmost(headers, t) == Len(headers) <= NCols(t)

\* len(headers) == df.shape[1]
CountMatches(headers, t) == Len(headers) = NCols(t)

\* if header_input: ... df.columns = headers / st.error(...)
ApplyHeaderInput(t, header_input) ==
    IF header_input = <<>>
    THEN [table |-> t, error |-> FALSE, renamed |-> FALSE]
    ELSE IF CountMatches(Headers(header_input), t)
         THEN [table |-> SetColumns(t, Headers(header_input)),
               error |-> FALSE, renamed |-> TRUE]
         ELSE [table |-> t, error |-> TRUE, renamed |-> FALSE]

HeaderInputs == SeqsUpTo({"a", ",", " "}, MaxInputLen)

NoHdr == [path |-> "none", read |-> FALSE, input |-> <<>>, error |-> FALSE,
          renamed |-> FALSE, crashed |-> FALSE, audited |-> FALSE,
          suspect |-> FALSE]

\* the run reads the text box and applies it
HdrApplied(path, header_input, r, audited, suspect) ==
    [path |-> path, read |-> TRUE, input |-> header_input, error |-> r.error,
     renamed |-> r.renamed, crashed |-> FALSE, audited |-> audited,
     suspect |-> suspect]

\* lines 120-133: needs_header_fix
HeaderFixNoHeader(header_input) ==
    /\ needs_header_fix
    /\ LET r == ApplyHeaderInput(loaded, header_input)
       IN /\ df' = r.table
          /\ hdr' = HdrApplied("noheader", header_input, r, FALSE, FALSE)
    /\ UNCHANGED <<loaded, needs_header_fix, report, tabvars>>

\* lines 136-148: "Edit column header names?" is checked.  The default text
\* is ",".join(df.columns.tolist()), which raises TypeError on a label that
\* is not a string; nothing catches it and the run ends there.
HeaderFixEdit(header_input) ==
    /\ ~needs_header_fix
    /\ IF \E i \in 1..NCols(loaded) : loaded.columns[i].int
       THEN /\ df' = loaded
            /\ hdr' = [NoHdr EXCEPT !.path = "edit", !.crashed = TRUE]
       ELSE LET r == ApplyHeaderInput(loaded, header_input)
            IN /\ df' = r.table
               /\ hdr' = HdrApplied("edit", header_input, r, FALSE, FALSE)
    /\ UNCHANGED <<loaded, needs_header_fix, report, tabvars>>

\* lines 149-163: not editing, headers_suspect(df), "Update column headers?"
\* is checked
HeaderFixSuspect(header_input) ==
    /\ ~needs_header_fix
    /\ headers_suspect(loaded)
    /\ LET r == ApplyHeaderInput(loaded, header_input)
       IN /\ df' = r.table
          /\ hdr' = HdrApplied("suspect", header_input, r, TRUE, TRUE)
    /\ UNCHANGED <<loaded, needs_header_fix, report, tabvars>>

\* lines 136, 149-152: neither checkbox is checked
HeaderKeep ==
    /\ ~needs_header_fix
    /\ df' = loaded
    /\ hdr' = [NoHdr EXCEPT !.path = "keep", !.audited = TRUE,
                            !.suspect = headers_suspect(loaded)]
    /\ UNCHANGED <<loaded, needs_header_fix, report, tabvars>>

(***************************************************************************)
(* pandas operations the scan and the cleaning stages call                 *)
(***************************************************************************)
Idx(t) == [i \in 1..NCols(t) |-> i]

\* the column positions satisfying P, in column order
ColsWhere(t, P(_)) == SelectSeq(Idx(t), P)

\* "sub" in s
Contains(s, sub) ==
    \E i \in 0..(Len(s) - Len(sub)) : SubSeq(s, i + 1, i + Len(sub)) = sub

\* df[col].isnull().sum()
NullCount(t, c) == Cardinality({r \in 1..NRows(t) : IsNull(t.rows[r][c])})

RowEqOn(r1, r2, key) == \A c \in key : ValueEq(r1[c], r2[c])

RECURSIVE DupMarks(_, _, _)
\* one pass over the rows with the table of keys seen so far
DupMarks(rows, key, seen) ==
    IF rows = <<>> THEN <<>>
    ELSE LET r == Head(rows)
             dup == \E j \in 1..Len(seen) : RowEqOn(seen[j], r, key)
         IN <<dup>> \o DupMarks(Tail(rows), key, IF dup THEN seen ELSE Append(seen, r))

Duplicated_keepFalse(t, key) ==
    [i \in 1..NRows(t) |->
        \E j \in 1..NRows(t) : j # i /\ RowEqOn(t.rows[j], t.rows[i], key)]

\* df.duplicated(subset=key), keep="first"
Duplicated(t, key) == DupMarks(t.rows, key, <<>>)

AllCols(t) == 1..NCols(t)

\* Equality in Series.unique(): as ValueEq, but NaN and None are two values
UniqEq(a, b) ==
    \/ a.k = "nan" /\ b.k = "nan"
    \/ a.k = "none" /\ b.k = "none"
    \/ IsNumber(a) /\ IsNumber(b) /\ a.n = b.n /\ a.d = b.d
    \/ a.k = "str" /\ b.k = "str" /\ a.s = b.s

\* df[col].nunique(dropna=False): the rows holding a value's first occurrence
NUnique(t, c) ==
    Cardinality({r \in 1..NRows(t) :
                    \A q \in 1..(r - 1) : ~UniqEq(t.rows[q][c], t.rows[r][c])})

TypesOf_nanOwnKind(t, c) == {t.rows[r][c].k : r \in 1..NRows(t)}

\* df[col].map(type): an int64 column yields int objects, a float64 column
\* float objects (NaN among them), an object column its objects
TypesOf(t, c) == {TypeOf(t.rows[r][c]) : r \in 1..NRows(t)}

RECURSIVE ParseInt(_)
ParseInt(s) ==
    IF s = <<>> THEN 0
    ELSE 10 * ParseInt(SubSeq(s, 1, Len(s) - 1))
         + (CHOOSE i \in 0..9 : DigitChar(i) = s[Len(s)])

RECURSIVE Pow10(_)
Pow10(k) == IF k = 0 THEN 1 ELSE 10 * Pow10(k - 1)

\* the number a string parses to: digits, or digits "." digits
ParseNumber(s) ==
    LET dot == {i \in 1..Len(s) : s[i] = "."}
    IN IF IsDigit(s) THEN [ok |-> TRUE, n |-> ParseInt(s), d |-> 1, int |-> TRUE]
       ELSE IF /\ Cardinality(dot) = 1
               /\ LET i == CHOOSE i \in dot : TRUE
                  IN IsDigit(SubSeq(s, 1, i - 1)) /\ IsDigit(SubSeq(s, i + 1, Len(s)))
            THEN LET i == CHOOSE i \in dot : TRUE
                     f == Frac(ParseInt(SubSeq(s, 1, i - 1) \o SubSeq(s, i + 1, Len(s))),
                               Pow10(Len(s) - i))
                 IN [ok |-> TRUE, n |-> f.n, d |-> f.d, int |-> FALSE]
            ELSE [ok |-> FALSE, n |-> 0, d |-> 1, int |-> FALSE]

\* pd.to_numeric(df[col]) raises on a string that is not a number
ToNumericRaises(t, c) ==
    \E r \in 1..NRows(t) :
        t.rows[r][c].k = "str" /\ ~ParseNumber(t.rows[r][c].s).ok

(***************************************************************************)
(* Column statistics and conversions the cleaning stages call              *)
(***************************************************************************)
NA == [k |-> "na", n |-> 0, d |-> 1, s |-> <<>>]
NaT == [k |-> "nat", n |-> 0, d |-> 1, s |-> <<>>]

\* the characters of the model in code-point order
Ascii ==
    <<" ", "*", ",", ".", "0", "1", "2", "3", "4", "5", "6", "7", "8", "9", ":",
      "A", "C", "D", "E", "F", "M", "N", "T", "U", "X", "_",
      "a", "b", "d", "e", "l", "m", "n", "o", "r", "s", "u", "x">>
Ord(c) == CHOOSE i \in 1..Len(Ascii) : Ascii[i] = c

RECURSIVE StrLess(_, _)
StrLess(a, b) ==
    IF b = <<>> THEN FALSE
    ELSE IF a = <<>> THEN TRUE
    ELSE IF Head(a) = Head(b) THEN StrLess(Tail(a), Tail(b))
    ELSE Ord(Head(a)) < Ord(Head(b))

NumLess(a, b) == a.n * b.d < b.n * a.d

NonNull(col) == SelectSeq(col, LAMBDA c : ~IsNull(c))

RECURSIVE SumN(_, _)
\* the sum of the fractions of col, over the common denominator den
SumN(col, den) ==
    IF col = <<>> THEN 0
    ELSE Head(col).n * (den \div Head(col).d) + SumN(Tail(col), den)

RECURSIVE ProdD(_)
ProdD(col) == IF col = <<>> THEN 1 ELSE Head(col).d * ProdD(Tail(col))

\* Series.mean(): NaN cells skipped, NaN when nothing is left
Mean(col) ==
    LET v == NonNull(col)
    IN IF v = <<>> THEN NaN
       ELSE FloatCell(SumN(v, ProdD(v)), ProdD(v) * Len(v))

\* the k-th smallest of the numbers v
Kth(v, k) ==
    LET i == CHOOSE i \in 1..Len(v) :
                /\ Cardinality({j \in 1..Len(v) : NumLess(v[j], v[i])}) < k
                /\ Cardinality({j \in 1..Len(v) : ~NumLess(v[i], v[j])}) >= k
    IN v[i]

\* Series.median(): NaN cells skipped
Median(col) ==
    LET v == NonNull(col)
        m == Len(v)
    IN IF m = 0 THEN NaN
       ELSE IF m % 2 = 1 THEN FloatCell(Kth(v, (m + 1) \div 2).n, Kth(v, (m + 1) \div 2).d)
       ELSE Mean(<<Kth(v, m \div 2), Kth(v, m \div 2 + 1)>>)

CellLess(a, b) ==
    IF a.k = "str" /\ b.k = "str" THEN StrLess(a.s, b.s)
    ELSE IsNumber(a) /\ IsNumber(b) /\ NumLess(a, b)

\* Series.mode(): the most frequent non-null values, sorted; empty when
\* every cell is missing
Modes(col) ==
    LET v == NonNull(col)
        count(i) == Cardinality({j \in 1..Len(v) : ValueEq(v[j], v[i])})
        first(i) == \A j \in 1..(i - 1) : ~ValueEq(v[j], v[i])
        top == SelectSeq([i \in 1..Len(v) |-> i],
                         LAMBDA i : first(i) /\ \A j \in 1..Len(v) : count(j) <= count(i))
    IN [i \in 1..Len(top) |-> v[top[i]]]

\* .mode()[0] where the mode is not empty
FirstMode(col) ==
    LET m == Modes(col)
        least == {i \in 1..Len(m) : \A j \in 1..Len(m) : ~CellLess(m[j], m[i])}
    IN m[CHOOSE i \in least : \A j \in least : i <= j]

\* Series.fillna(value)
FillNa(col, value) == [r \in 1..Len(col) |-> IF IsNull(col[r]) THEN value ELSE col[r]]

\* pd.api.types.is_numeric_dtype
IsNumericDtype(dtype) == dtype \in {"int64", "float64", "bool", "Int64", "boolean"}

AsFloat(c) == IF IsNull(c) THEN NaN ELSE FloatCell(c.n, c.d)

\* pd.to_numeric(col, errors="coerce"): a numeric column comes back as it
\* is; in an object column a string that does not parse becomes NaN, and the
\* result is int64 when every cell is an integer and float64 otherwise
ToNumericCoerce(dtype, col) ==
    IF dtype # "object" THEN [dtype |-> dtype, cells |-> col]
    ELSE LET one(c) ==
                 IF c.k = "str"
                 THEN LET p == ParseNumber(c.s)
                      IN IF ~p.ok THEN NaN
                         ELSE IF p.int THEN IntCell(p.n) ELSE FloatCell(p.n, p.d)
                 ELSE IF IsNull(c) THEN NaN
                 ELSE IF c.k = "bool" THEN IntCell(c.n)
                 ELSE c
             cells == [r \in 1..Len(col) |-> one(col[r])]
         IN IF \A r \in 1..Len(col) : cells[r].k = "int"
            THEN [dtype |-> "int64", cells |-> cells]
            ELSE [dtype |-> "float64", cells |-> [r \in 1..Len(col) |-> AsFloat(cells[r])]]

\* .astype("Int64") raises on a number that is not an integer
AsInt64Raises(col) == \E r \in 1..Len(col) : ~IsNull(col[r]) /\ col[r].d # 1
AsInt64(col) ==
    [r \in 1..Len(col) |-> IF IsNull(col[r]) THEN NA ELSE IntCell(col[r].n)]

RECURSIVE IntToStr(_)
IntToStr(i) ==
    IF i < 10 THEN <<DigitChar(i)>>
    ELSE IntToStr(i \div 10) \o <<DigitChar(i % 10)>>

\* str(cell).  The floats of the model are whole or halves.
PyStr(c) ==
    CASE c.k = "str" -> c.s
      [] c.k = "int" -> IntToStr(c.n)
      [] c.k = "float" ->
            IntToStr(c.n \div c.d) \o <<".">> \o IntToStr(((c.n % c.d) * 10) \div c.d)
      [] c.k = "bool" -> IF c.n = 1 THEN <<"T", "r", "u", "e">>
                         ELSE <<"F", "a", "l", "s", "e">>
      [] c.k = "nan" -> <<"n", "a", "n">>
      [] c.k = "none" -> <<"N", "o", "n", "e">>
      [] OTHER -> <<"N", "A">>

\* .astype(str)
AsStr(col) == [r \in 1..Len(col) |-> StrCell(PyStr(col[r]))]

\* bool(cell) in place of the dictionary lookup
MapBool_truthy(c) == IF IsNull(c) THEN NaN ELSE BoolCell(c.n # 0 \/ c.s # <<>>)

\* one lookup of .map({'True': True, 'False': False, True: True,
\* False: False, 1: True, 0: False}): a key that is absent gives NaN
MapBool(c) ==
    IF c.k = "str" /\ c.s = <<"T", "r", "u", "e">> THEN BoolCell(TRUE)
    ELSE IF c.k = "str" /\ c.s = <<"F", "a", "l", "s", "e">> THEN BoolCell(FALSE)
    ELSE IF IsNumber(c) /\ c.n = 1 /\ c.d = 1 THEN BoolCell(TRUE)
    ELSE IF IsNumber(c) /\ c.n = 0 THEN BoolCell(FALSE)
    ELSE NaN

\* .map({...}).astype("boolean"): NaN becomes <NA>
AsBoolean(col) ==
    [r \in 1..Len(col) |-> IF IsNull(MapBool(col[r])) THEN NA ELSE MapBool(col[r])]

\* pd.to_datetime(col, errors="coerce"): a number is a count of nanoseconds,
\* a string is parsed; what does not parse becomes NaT.  The timestamp is
\* kept as the number it was made from.
AsDatetime(col) ==
    LET one(c) ==
            IF IsNull(c) THEN NaT
            ELSE IF c.k = "str"
                 THEN IF ParseNumber(c.s).ok
                      THEN [k |-> "datetime", n |-> ParseNumber(c.s).n,
                            d |-> ParseNumber(c.s).d, s |-> <<"s", "t", "r">>]
                      ELSE NaT
                 ELSE [k |-> "datetime", n |-> c.n, d |-> c.d, s |-> <<>>]
    IN [r \in 1..Len(col) |-> one(col[r])]

(***************************************************************************)
(* check_data_quality (lines 42-105).  A finding is Issue, Column (a list  *)
(* of labels, empty for "-") and the numbers its Details text prints.      *)
(***************************************************************************)
Finding(issue, column, count, pct) ==
    [issue |-> issue, column |-> column, count |-> count, pct |-> pct]

PerColumn(t, sel, F(_)) == [j \in 1..Len(sel) |-> F(sel[j])]

\* (count / len(df)) * 100 printed with two decimals, in hundredths
Pct(count, n) == (20000 * count + n) \div (2 * n)

UnnamedFindings(t) ==
    LET unnamed == ColsWhere(t, LAMBDA c :
                        Contains(LowerStr(Str(t.columns[c])), UnnamedPrefix))
    IN IF unnamed # <<>>
       THEN << Finding("Missing/Unnamed headers",
                       [j \in 1..Len(unnamed) |-> t.columns[unnamed[j]]],
                       Len(unnamed), 0) >>
       ELSE <<>>

MissingFindings(t) ==
    PerColumn(t, ColsWhere(t, LAMBDA c : NullCount(t, c) > 0),
              LAMBDA c : Finding("Missing values", <<t.columns[c]>>,
                                 NullCount(t, c), Pct(NullCount(t, c), NRows(t))))

DuplicateFindings(t) ==
    LET marks == Duplicated(t, AllCols(t))
        dupes == Cardinality({r \in 1..NRows(t) : marks[r]})
    IN IF dupes > 0 THEN << Finding("Duplicate rows", <<>>, dupes, 0) >> ELSE <<>>

ConstantFindings(t) ==
    PerColumn(t, ColsWhere(t, LAMBDA c : NUnique(t, c) <= 1),
              LAMBDA c : Finding("Constant column", <<t.columns[c]>>, 0, 0))

MixedFindings(t) ==
    PerColumn(t, ColsWhere(t, LAMBDA c : Cardinality(TypesOf(t, c)) > 1),
              LAMBDA c : Finding("Mixed data types", <<t.columns[c]>>, 0, 0))

NumericStringFindings(t) ==
    PerColumn(t, ColsWhere(t, LAMBDA c : t.dtypes[c] = "object" /\ ~ToNumericRaises(t, c)),
              LAMBDA c : Finding("Possible numeric column as object",
                                 <<t.columns[c]>>, 0, 0))

check_data_quality(t) ==
    UnnamedFindings(t) \o MissingFindings(t) \o DuplicateFindings(t)
        \o ConstantFindings(t) \o MixedFindings(t) \o NumericStringFindings(t)

NoReport == [done |-> FALSE, findings |-> <<>>]

\* tab3 (lines 183-190)
Scan ==
    /\ \E findings \in {check_data_quality(df)} :
          report' = [done |-> TRUE, findings |-> findings]
    /\ UNCHANGED <<loaded, needs_header_fix, df, hdr, tabvars>>

(***************************************************************************)
(* The Clean & Export tab (lines 231-376).  The run keeps its data frames  *)
(* in a heap: df and df_clean are references, an assignment                *)
(* df_clean[col] = ... changes the frame df_clean refers to, and dropna,   *)
(* drop_duplicates and drop return a new frame.  env.ui collects the value *)
(* every widget returns in this run, which is what the session stores for  *)
(* the next run; a widget the run does not draw falls back to its default. *)
(***************************************************************************)
\* the widgets before a run draws them: every one at its default
DefaultUi(t) ==
    [ null_cols |-> <<>>, null_col |-> <<>>, missing_action |-> "Do Nothing",
      manual |-> <<>>, dup_rendered |-> FALSE, dup_cols |-> {},
      const_options |-> <<>>, const_cols |-> {}, obj_options |-> <<>>,
      obj_cols |-> {}, dtype_cols |-> <<>>,
      dtype |-> [n \in {t.columns[i] : i \in 1..Len(t.columns)} |-> "No Change"],
      file_type |-> "CSV" ]

NewEnv(t) ==
    [frames |-> <<t>>, df |-> 1, df_clean |-> 1, errors |-> {}, crashed |-> FALSE,
     ui |-> DefaultUi(t), pre_dup |-> t, post_dup |-> t, pre_retype |-> t]
Cur(env) == env.frames[env.df_clean]

Copy_alias(env) == [env EXCEPT !.df_clean = env.df]

\* df_clean = df.copy()
Copy(env) ==
    [env EXCEPT !.frames = Append(@, env.frames[env.df]),
                !.df_clean = Len(env.frames) + 1]

\* df_clean = <a new frame>
Rebind(env, t) ==
    [env EXCEPT !.frames = Append(@, t), !.df_clean = Len(env.frames) + 1]

WithColumn(t, c, dtype, cells) ==
    [t EXCEPT !.dtypes[c] = dtype,
              !.rows = [r \in 1..NRows(t) |-> [t.rows[r] EXCEPT ![c] = cells[r]]]]

\* df_clean[col] = <cells>
SetItem(env, c, dtype, cells) ==
    [env EXCEPT !.frames[env.df_clean] = WithColumn(@, c, dtype, cells)]

Report(env, e) == [env EXCEPT !.errors = @ \cup {e}]
Raise(env) == [env EXCEPT !.crashed = TRUE]

ColIndex(t, name) == CHOOSE i \in 1..NCols(t) : t.columns[i] = name
NamesAt(t, sel) == [j \in 1..Len(sel) |-> t.columns[sel[j]]]
Range(f) == {f[i] : i \in DOMAIN f}

\* df.dropna(subset=[col])
DropNa(t, c) == [t EXCEPT !.rows = SelectSeq(t.rows, LAMBDA row : ~IsNull(row[c]))]

\* df.drop_duplicates(subset=key)
DropDuplicates(t, key) ==
    LET marks == Duplicated(t, key)
        keep == SelectSeq([r \in 1..NRows(t) |-> r], LAMBDA r : ~marks[r])
    IN [t EXCEPT !.rows = [j \in 1..Len(keep) |-> t.rows[keep[j]]]]

\* df.drop(columns=names)
DropColumns(t, names) ==
    LET keep == ColsWhere(t, LAMBDA c : t.columns[c] \notin names)
    IN Table([j \in 1..Len(keep) |-> t.columns[keep[j]]],
             [j \in 1..Len(keep) |-> t.dtypes[keep[j]]],
             [r \in 1..NRows(t) |-> [j \in 1..Len(keep) |-> t.rows[r][keep[j]]]])

\* float(manual_value) raises ValueError on what is not a number
FloatRaises(s) == ~ParseNumber(s).ok

MissingActions ==
    {"Do Nothing", "Drop Rows", "Fill with Mean", "Fill with Median",
     "Fill with Mode", "Add Values Manually"}

\* line 238: the columns with a missing cell
NullCols(t) == NamesAt(t, ColsWhere(t, LAMBDA c : NullCount(t, c) > 0))

\* lines 238-245, 256: the selectbox returns the stored option, or the first
\* one; the radio and the text box are keyed by the selected column
Draw1(env, w) ==
    LET null_cols == NullCols(Cur(env))
    IN IF null_cols = <<>> THEN env
       ELSE [env EXCEPT
               !.ui.null_cols = null_cols,
               !.ui.null_col = IF w.null_col # <<>> /\ w.null_col[1] \in Range(null_cols)
                               THEN w.null_col ELSE <<null_cols[1]>>,
               !.ui.missing_action = w.missing_action,
               !.ui.manual = IF w.missing_action = "Add Values Manually"
                             THEN w.manual ELSE <<>>]

\* line 254: .mode()[0] raises on the empty mode of an all-missing column,
\* and nothing catches it
FillMode(env, c, col) ==
    IF Modes(col) = <<>> THEN Raise(env)
    ELSE SetItem(env, c, Cur(env).dtypes[c], FillNa(col, FirstMode(col)))

InvalidFillValue(name) == [kind |-> "InvalidFillValue", column |-> name, target |-> "-"]

\* lines 255-264
FillManual(env, c, col, dtype, manual_value) ==
    IF manual_value = <<>> THEN env
    ELSE IF ~IsNumericDtype(dtype) THEN SetItem(env, c, dtype, FillNa(col, StrCell(manual_value)))
    ELSE IF FloatRaises(manual_value) THEN Report(env, InvalidFillValue(Cur(env).columns[c]))
    ELSE SetItem(env, c, dtype,
                 FillNa(col, FloatCell(ParseNumber(manual_value).n,
                                       ParseNumber(manual_value).d)))

\* lines 247-264
Act1(env, c, col, dtype) ==
    LET a == env.ui.missing_action
    IN CASE a = "Drop Rows" -> Rebind(env, DropNa(Cur(env), c))
         [] a = "Fill with Mean" /\ IsNumericDtype(dtype) ->
               SetItem(env, c, dtype, FillNa(col, Mean(col)))
         [] a = "Fill with Median" /\ IsNumericDtype(dtype) ->
               SetItem(env, c, dtype, FillNa(col, Median(col)))
         [] a = "Fill with Mode" -> FillMode(env, c, col)
         [] a = "Add Values Manually" -> FillManual(env, c, col, dtype, env.ui.manual)
         [] OTHER -> env

\* lines 236-266: missing-value handling, on the widgets as drawn
Handle1(env) ==
    IF env.ui.null_cols = <<>> THEN env
    ELSE Act1(env, ColIndex(Cur(env), env.ui.null_col[1]),
              Column(Cur(env), ColIndex(Cur(env), env.ui.null_col[1])),
              Cur(env).dtypes[ColIndex(Cur(env), env.ui.null_col[1])])

Stage1(env, w) == Handle1(Draw1(env, w))

\* line 270: df_clean.duplicated().sum() > 0
DupRendered(t) == \E r \in 1..NRows(t) : Duplicated(t, AllCols(t))[r]

\* lines 270-275: the multiselect is drawn when there are duplicate rows
Draw2(env, w) ==
    IF DupRendered(Cur(env))
    THEN [env EXCEPT !.ui.dup_rendered = TRUE, !.ui.dup_cols = w.dup_cols,
                     !.pre_dup = Cur(env)]
    ELSE [env EXCEPT !.pre_dup = Cur(env)]

\* lines 276-280
Act2(env, clicked) ==
    IF env.ui.dup_rendered /\ "drop_duplicates" \in clicked
    THEN IF env.ui.dup_cols # {}
         THEN Rebind(env, DropDuplicates(Cur(env),
                              {ColIndex(Cur(env), n) : n \in env.ui.dup_cols}))
         ELSE Rebind(env, DropDuplicates(Cur(env), AllCols(Cur(env))))
    ELSE env

Snap2(env) == [env EXCEPT !.post_dup = Cur(env)]

\* lines 268-282: duplicate rows
Stage2(env, w, clicked) ==
    IF env.crashed THEN env ELSE Snap2(Act2(Draw2(env, w), clicked))

\* line 287
ConstOptions(t) == NamesAt(t, ColsWhere(t, LAMBDA c : NUnique(t, c) <= 1))

\* A multiselect returns its stored selection while its options are those
\* it was last drawn with, and its default (nothing) otherwise.
Stored(selection, options, drawn) == IF options = drawn THEN selection ELSE {}

\* lines 288-293
Draw3(env, w, options) ==
    IF options = <<>> THEN env
    ELSE [env EXCEPT !.ui.const_options = options,
                     !.ui.const_cols = Stored(w.const_cols, options, w.const_options)]

\* lines 294-295
Act3(env, clicked) ==
    IF env.ui.const_options # <<>> /\ "drop_constant" \in clicked
    THEN Rebind(env, DropColumns(Cur(env), env.ui.const_cols))
    ELSE env

\* lines 284-297: constant columns
Stage3(env, w, clicked) ==
    IF env.crashed THEN env ELSE Act3(Draw3(env, w, ConstOptions(Cur(env))), clicked)

\* lines 302-312: the object columns, those that convert marked with "*"
ObjOptions(t) ==
    LET object_cols == ColsWhere(t, LAMBDA c : t.dtypes[c] = "object")
    IN [j \in 1..Len(object_cols) |->
           IF ToNumericRaises(t, object_cols[j])
           THEN Str(t.columns[object_cols[j]])
           ELSE Str(t.columns[object_cols[j]]) \o <<"*">>]

\* lines 313-317
Draw4(env, w, options) ==
    IF options = <<>> THEN env
    ELSE [env EXCEPT !.ui.obj_options = options,
                     !.ui.obj_cols = Stored(w.obj_cols, options, w.obj_options)]

RECURSIVE RStripStar(_)
\* col.rstrip('*')
RStripStar(s) ==
    IF s # <<>> /\ s[Len(s)] = "*" THEN RStripStar(SubSeq(s, 1, Len(s) - 1)) ELSE s

\* line 323: df_clean[col] = pd.to_numeric(df_clean[col], errors='coerce')
ConvertOne(env, c, res) == SetItem(env, c, res.dtype, res.cells)

RECURSIVE ConvertEach(_, _)
\* lines 321-325, over the selected labels in option order
ConvertEach(env, labels) ==
    IF labels = <<>> THEN env
    ELSE ConvertEach(
            ConvertOne(env, ColIndex(Cur(env), StrName(RStripStar(Head(labels)))),
                       ToNumericCoerce("object",
                           Column(Cur(env),
                                  ColIndex(Cur(env), StrName(RStripStar(Head(labels))))))),
            Tail(labels))

\* lines 319-325
Act4(env, clicked) ==
    IF env.ui.obj_options # <<>> /\ "convert_numeric" \in clicked
    THEN ConvertEach(env, SelectSeq(env.ui.obj_options, LAMBDA o : o \in env.ui.obj_cols))
    ELSE env

\* lines 299-327: object to numeric
Stage4(env, w, clicked) ==
    IF env.crashed THEN env ELSE Act4(Draw4(env, w, ObjOptions(Cur(env))), clicked)

Dtypes == {"No Change", "int", "float", "string", "boolean", "datetime", "category"}

ConversionError(name, new_dtype) ==
    [kind |-> "TypeConversionError", column |-> name, target |-> new_dtype]

\* line 344: pd.to_numeric(..., errors='coerce').astype('Int64')
RetypeInt(env, c, num) ==
    IF AsInt64Raises(num.cells)
    THEN Report(env, ConversionError(Cur(env).columns[c], "int"))
    ELSE SetItem(env, c, "Int64", AsInt64(num.cells))

\* lines 341-356: one column of the loop
Retype(env, c, col, dtype, new_dtype) ==
    CASE new_dtype = "int" -> RetypeInt(env, c, ToNumericCoerce(dtype, col))
      [] new_dtype = "float" -> ConvertOne(env, c, ToNumericCoerce(dtype, col))
      [] new_dtype = "string" -> SetItem(env, c, "object", AsStr(col))
      [] new_dtype = "boolean" -> SetItem(env, c, "boolean", AsBoolean(col))
      [] new_dtype = "datetime" -> SetItem(env, c, "datetime64", AsDatetime(col))
      [] new_dtype = "category" -> SetItem(env, c, "category", col)
      [] OTHER -> env

RECURSIVE RetypeFrom(_, _, _)
\* lines 332-356: for col in df_clean.columns
RetypeFrom(env, w, c) ==
    IF c > NCols(Cur(env)) THEN env
    ELSE RetypeFrom(Retype(env, c, Column(Cur(env), c), Cur(env).dtypes[c],
                           w.dtype[Cur(env).columns[c]]),
                    w, c + 1)

\* lines 336-340: one selectbox for every column of df_clean
Draw5(env, w) ==
    [env EXCEPT !.pre_retype = Cur(env),
                !.ui.dtype_cols = Cur(env).columns,
                !.ui.dtype = [n \in DOMAIN w.dtype |->
                                 IF n \in Range(Cur(env).columns)
                                 THEN w.dtype[n] ELSE "No Change"],
                \* line 364
                !.ui.file_type = w.file_type]

\* lines 329-376: retyping, preview and download
Stage5(env, w) ==
    IF env.crashed THEN env ELSE RetypeFrom(Draw5(env, w), w, 1)

\* One execution of the tab on the loaded table t, with the widget values w
\* the session stores; clicked holds the button whose click started the run.
Run(t, w, clicked) ==
    Stage5(Stage4(Stage3(Stage2(Stage1(Copy(NewEnv(t)), w), w, clicked), w, clicked),
                  w, clicked), w)

EmptyTable == Table(<<>>, <<>>, <<>>)
NoRun == [done |-> FALSE, df_clean |-> EmptyTable, pre_dup |-> EmptyTable,
          post_dup |-> EmptyTable, pre_retype |-> EmptyTable, errors |-> {},
          crashed |-> FALSE, clicked |-> {}]

\* the tab has not run
TabIdle ==
    /\ ui = DefaultUi(loaded)
    /\ run = NoRun
    /\ steps = 0

RunRecord(e, clicked) ==
    [done |-> TRUE, df_clean |-> Cur(e), pre_dup |-> e.pre_dup,
     post_dup |-> e.post_dup, pre_retype |-> e.pre_retype, errors |-> e.errors,
     crashed |-> e.crashed, clicked |-> clicked]

\* The user sets one widget (ui1) or clicks one button (clicked) and the
\* script runs again on the file it loads again.
Interact(ui1, clicked) ==
    /\ run.done
    /\ steps < MaxSteps
    /\ \E e \in {Run(loaded, ui1, clicked)} :
          /\ df' = e.frames[e.df]
          /\ ui' = e.ui
          /\ run' = RunRecord(e, clicked)
    /\ steps' = steps + 1
    /\ UNCHANGED <<loaded, needs_header_fix, hdr, report>>

\* line 240
SelectNullCol(name) ==
    /\ name \in Range(ui.null_cols)
    /\ <<name>> # ui.null_col
    /\ Interact([ui EXCEPT !.null_col = <<name>>, !.missing_action = "Do Nothing",
                           !.manual = <<>>], {})

\* lines 241-245
ChooseMissingAction(a) ==
    /\ ui.null_cols # <<>>
    /\ a # ui.missing_action
    /\ Interact([ui EXCEPT !.missing_action = a], {})

\* line 256
TypeManualValue(v) ==
    /\ ui.null_cols # <<>>
    /\ ui.missing_action = "Add Values Manually"
    /\ v # ui.manual
    /\ Interact([ui EXCEPT !.manual = v], {})

\* lines 271-275
SelectDupCols(K) ==
    /\ ui.dup_rendered
    /\ K # ui.dup_cols
    /\ Interact([ui EXCEPT !.dup_cols = K], {})

\* line 276
ClickDropDuplicates ==
    /\ ui.dup_rendered
    /\ Interact(ui, {"drop_duplicates"})

\* lines 289-293
SelectConstCols(S) ==
    /\ ui.const_options # <<>>
    /\ S \subseteq Range(ui.const_options)
    /\ S # ui.const_cols
    /\ Interact([ui EXCEPT !.const_cols = S], {})

\* line 294
ClickDropConstant ==
    /\ ui.const_options # <<>>
    /\ Interact(ui, {"drop_constant"})

\* lines 313-317
SelectObjCols(S) ==
    /\ ui.obj_options # <<>>
    /\ S \subseteq Range(ui.obj_options)
    /\ S # ui.obj_cols
    /\ Interact([ui EXCEPT !.obj_cols = S], {})

\* line 320
ClickConvertNumeric ==
    /\ ui.obj_options # <<>>
    /\ Interact(ui, {"convert_numeric"})

\* lines 336-340
SelectDtype(name, new_dtype) ==
    /\ name \in Range(ui.dtype_cols)
    /\ new_dtype # ui.dtype[name]
    /\ Interact([ui EXCEPT !.dtype[name] = new_dtype], {})

FileTypes == {"CSV", "Excel", "JSON"}

\* line 364
SelectFileType(file_type) ==
    /\ ~run.crashed
    /\ file_type # ui.file_type
    /\ Interact([ui EXCEPT !.file_type = file_type], {})

(***************************************************************************)
(* Header specifications.  The file is loaded once; every run re-reads it, *)
(* so a run's header section starts from the loaded table.                 *)
(***************************************************************************)
\* one row of integers under n columns
PlainRows(n) == << [i \in 1..n |-> IntCell(i)] >>
PlainTable(columns) ==
    Table(columns, [i \in 1..Len(columns) |-> "int64"], PlainRows(Len(columns)))

\* header=None: pandas labels the columns 0 .. n-1
PositionalNames(n) == [i \in 1..n |-> IntName(i - 1)]

EditNamePool == {StrName(<<"a">>), StrName(<<"7">>), IntName(7)}

InitHeaderOver(pool) ==
    /\ \E n \in 1..MaxCols :
          \/ /\ needs_header_fix = TRUE
             /\ loaded = PlainTable(PositionalNames(n))
          \/ /\ needs_header_fix = FALSE
             /\ \E names \in [1..n -> pool] : loaded = PlainTable(names)
    /\ df = loaded
    /\ hdr = NoHdr
    /\ report = NoReport
    /\ TabIdle

InitHeader == InitHeaderOver(EditNamePool)

\* what the user can leave or type in the text box
TypedOrDefault(default) == HeaderInputs \cup {default}

NextHeader ==
    \/ \E header_input \in TypedOrDefault(Join(DefaultHeaders(loaded))) :
          HeaderFixNoHeader(header_input)
    \/ \E header_input \in
             TypedOrDefault(Join([i \in 1..NCols(loaded) |-> Str(loaded.columns[i])])) :
          HeaderFixEdit(header_input)
    \/ \E header_input \in TypedOrDefault(Join(DefaultHeaders(loaded))) :
          HeaderFixSuspect(header_input)
    \/ HeaderKeep

SpecHeader == InitHeader /\ [][NextHeader]_vars

InitAudit == InitHeaderOver(NamePool)

NextAudit ==
    \/ HeaderKeep
    \/ HeaderFixSuspect(Join(DefaultHeaders(loaded)))

SpecAudit == InitAudit /\ [][NextAudit]_vars

(***************************************************************************)
(* C1, C6: the rename contract                                             *)
(***************************************************************************)
C1_Commas(s) == Cardinality({i \in 1..Len(s) : s[i] = ","})
C1_CountOk == C1_Commas(hdr.input) + 1 = NCols(loaded)
C1_Renamed ==
    /\ df.columns = Headers(hdr.input)
    /\ df.rows = loaded.rows
    /\ ~hdr.error
C1_Rejected == hdr.error /\ df = loaded

\* C1 as stated: in each header-fix path that reads a replacement string,
\* the columns are renamed to the trimmed tokens iff the token count equals
\* the column count, and every other string, the empty one included, gets a
\* HeaderCountMismatch error and leaves the table unchanged.
C1_Original ==
    hdr.read =>
        IF hdr.input # <<>> /\ C1_CountOk THEN C1_Renamed ELSE C1_Rejected

\* C1 amended: as C1 for every non-empty replacement string; the empty
\* string is ignored: the table is unchanged and no error is reported.
C1_Amended ==
    hdr.read =>
        IF hdr.input = <<>> THEN df = loaded /\ ~hdr.error
        ELSE IF C1_CountOk THEN C1_Renamed ELSE C1_Rejected

\* a non-empty string with the wrong number of tokens was rejected on a
\* table of three columns
C1_Witness ==
    /\ hdr.read /\ hdr.path = "edit"
    /\ hdr.input = <<"a", ",", "a">>
    /\ NCols(loaded) = 3
    /\ hdr.error

\* C6 as stated: after every header-fix step that renames columns, the
\* column names of the table are pairwise distinct.
C6_Original ==
    hdr.renamed =>
        \A i, j \in 1..NCols(df) : df.columns[i] = df.columns[j] => i = j

(***************************************************************************)
(* C2: headers_suspect                                                     *)
(***************************************************************************)
C2_Upper == <<"U", "N", "N", "A", "M", "E", "D">>
C2_Unnamed(s) ==
    /\ Len(s) >= Len(UnnamedPrefix)
    /\ \A i \in 1..Len(UnnamedPrefix) : s[i] \in {UnnamedPrefix[i], C2_Upper[i]}
C2_AllDigits(s) == s # <<>> /\ {s[i] : i \in 1..Len(s)} \subseteq Digits
C2_Matches(col) == C2_Unnamed(Str(col)) \/ C2_AllDigits(Str(col))

\* C2: headers_suspect(table) is true iff every column name, compared
\* case-insensitively, starts with "unnamed" or is all decimal digits.
C2_HeadersSuspect ==
    hdr.audited =>
        (hdr.suspect <=> \A i \in 1..NCols(loaded) : C2_Matches(loaded.columns[i]))

\* a table with matching names and one name that is neither was audited and
\* found not suspect
C2_Witness ==
    /\ hdr.audited /\ ~hdr.suspect
    /\ NCols(loaded) = 3
    /\ Cardinality({i \in 1..3 : C2_Matches(loaded.columns[i])}) = 2

(***************************************************************************)
(* Scan specification: a loaded table of two columns is scanned.           *)
(***************************************************************************)
Int64Cells == {IntCell(1), IntCell(2)}
Float64Cells == {FloatCell(3, 2), NaN}
ObjectCells == {StrCell(<<"a">>), StrCell(<<"1">>), IntCell(1), NaN, None}

\* what pandas' type inference leaves in a column of each dtype: an object
\* column holds at least one string, and its missing cells are all NaN (csv,
\* excel) or all None (json)
ColumnsOf(dtype, n) ==
    CASE dtype = "int64" -> [1..n -> Int64Cells]
      [] dtype = "float64" -> [1..n -> Float64Cells]
      [] dtype = "object" ->
            {col \in [1..n -> ObjectCells] :
                /\ \E r \in 1..n : col[r].k = "str"
                /\ ~(\E r \in 1..n : col[r] = NaN) \/ ~(\E r \in 1..n : col[r] = None)}

ScanNames ==
    { <<StrName(<<"n">>), StrName(<<"s">>)>>,
      <<StrName(<<"U", "n", "n", "a", "m", "e", "d", ":", " ", "0">>), StrName(<<"s">>)>> }

\* the table with the two given columns
TwoColumns(names, dt1, c1, dt2, c2) ==
    Table(names, <<dt1, dt2>>, [r \in 1..Len(c1) |-> <<c1[r], c2[r]>>])

InitScan ==
    /\ \E n \in 1..ScanRows, names \in ScanNames,
          dt2 \in {"int64", "float64", "object"} :
          \E c1 \in ColumnsOf("int64", n), c2 \in ColumnsOf(dt2, n) :
              loaded = TwoColumns(names, "int64", c1, dt2, c2)
    /\ needs_header_fix = FALSE
    /\ df = loaded
    /\ hdr = NoHdr
    /\ report = NoReport
    /\ TabIdle

NextScan == Scan

SpecScan == InitScan /\ [][NextScan]_vars

FindingsOf(issue) ==
    {i \in 1..Len(report.findings) : report.findings[i].issue = issue}

(***************************************************************************)
(* C7: the duplicate-row check                                             *)
(***************************************************************************)
C7_SameCell(a, b) == (IsNull(a) /\ IsNull(b)) \/ a = b
C7_Repeats ==
    {i \in 1..NRows(df) :
        \E j \in 1..(i - 1) :
            \A c \in 1..NCols(df) : C7_SameCell(df.rows[j][c], df.rows[i][c])}

\* C7: the reported duplicate count is the number of rows whose full-row
\* value tuple already occurred in an earlier row; one table-level finding
\* is emitted when that count is positive and none when it is 0.
C7_DuplicateCount ==
    report.done =>
        /\ Cardinality(FindingsOf("Duplicate rows")) =
              IF C7_Repeats = {} THEN 0 ELSE 1
        /\ \A i \in FindingsOf("Duplicate rows") :
              /\ report.findings[i].count = Cardinality(C7_Repeats)
              /\ report.findings[i].column = <<>>

\* three equal rows were scanned and two duplicates reported
C7_Witness ==
    /\ report.done
    /\ NRows(df) = 3
    /\ Cardinality(C7_Repeats) = 2
    /\ \E i \in FindingsOf("Duplicate rows") : report.findings[i].count = 2

(***************************************************************************)
(* C8: the mixed-type check                                                *)
(***************************************************************************)
C8_Flagged(c) ==
    \E i \in FindingsOf("Mixed data types") :
        report.findings[i].column = <<df.columns[c]>>
C8_Kind(cell) == IF IsNull(cell) THEN "missing" ELSE cell.k

\* C8 as stated: a column is flagged iff more than one distinct value-kind
\* occurs among its cells, a missing cell being a kind of its own.
C8_Original ==
    report.done =>
        \A c \in 1..NCols(df) :
            C8_Flagged(c) <=>
                Cardinality({C8_Kind(df.rows[r][c]) : r \in 1..NRows(df)}) > 1

\* C8 amended: a column is flagged iff two of its cells are objects of
\* different Python types, where a NaN cell is a float (only None is a type
\* of its own): a float column with NaN cells is not flagged.
C8_Amended ==
    report.done =>
        \A c \in 1..NCols(df) :
            C8_Flagged(c) <=>
                \E r1, r2 \in 1..NRows(df) :
                    /\ df.rows[r1][c].k # df.rows[r2][c].k
                    /\ {df.rows[r1][c].k, df.rows[r2][c].k} # {"float", "nan"}

\* the scan flagged a column holding strings and a missing cell
C8_Witness ==
    /\ report.done
    /\ \E c \in 1..NCols(df) :
          /\ df.dtypes[c] = "object"
          /\ {df.rows[r][c].k : r \in 1..NRows(df)} = {"str", "nan"}
          /\ C8_Flagged(c)

(***************************************************************************)
(* Clean specification: a table of two columns is loaded, the script runs  *)
(* once with every widget at its default, and the user works the tab.      *)
(***************************************************************************)
CleanNames == <<StrName(<<"n">>), StrName(<<"s">>)>>

True == StrCell(<<"T", "r", "u", "e">>)
One == StrCell(<<"1">>)
Half == FloatCell(3, 2)

\* loaded tables: duplicate rows, rows that repeat on one column only, an
\* all-missing column, missing cells in one and in both columns, numeric
\* strings
CleanTables ==
    { TwoColumns(CleanNames, "float64", <<Half, Half, NaN>>, "object", <<True, True, One>>),
      TwoColumns(CleanNames, "float64", <<NaN, NaN>>, "object", <<One, True>>),
      TwoColumns(CleanNames, "int64", <<IntCell(1), IntCell(1)>>, "object", <<One, True>>),
      TwoColumns(CleanNames, "int64", <<IntCell(1), IntCell(2), IntCell(1)>>,
                 "object", <<True, NaN, True>>),
      TwoColumns(CleanNames, "float64", <<Half, NaN>>, "object", <<One, NaN>>),
      TwoColumns(CleanNames, "int64", <<IntCell(1), IntCell(2)>>, "object", <<One, One>>),
      TwoColumns(CleanNames, "float64", <<Half>>, "object", <<True>>) }

ManualValues == {<<>>, <<"1">>, <<"x">>}

\* the file is loaded and the script has run once
InitTab(tables) ==
    /\ loaded \in tables
    /\ needs_header_fix = FALSE
    /\ hdr = NoHdr
    /\ report = NoReport
    /\ \E e \in {Run(loaded, DefaultUi(loaded), {})} :
          /\ df = e.frames[e.df]
          /\ ui = e.ui
          /\ run = RunRecord(e, {})
    /\ steps = 0

InitClean == InitTab(CleanTables)

NextClean ==
    \/ \E name \in Range(loaded.columns) : SelectNullCol(name)
    \/ \E a \in MissingActions : ChooseMissingAction(a)
    \/ \E v \in ManualValues : TypeManualValue(v)
    \/ \E K \in SUBSET Range(loaded.columns) : SelectDupCols(K)
    \/ ClickDropDuplicates
    \/ \E S \in SUBSET Range(loaded.columns) : SelectConstCols(S)
    \/ ClickDropConstant
    \/ \E S \in SUBSET Range(ui.obj_options) : SelectObjCols(S)
    \/ ClickConvertNumeric
    \/ \E name \in Range(loaded.columns), new_dtype \in Dtypes : SelectDtype(name, new_dtype)
    \/ \E file_type \in FileTypes : SelectFileType(file_type)

SpecClean == InitClean /\ [][NextClean]_vars

(***************************************************************************)
(* Retype specification: every table of two columns over a few cells is    *)
(* loaded and the user works the dtype boxes.                              *)
(***************************************************************************)
RetypeTables ==
    UNION { { TwoColumns(CleanNames, "int64", c1, "object", c2) :
                c1 \in [1..n -> {IntCell(0), IntCell(2)}],
                c2 \in {col \in [1..n -> {True, One, NaN}] : \E r \in 1..n : col[r].k = "str"} }
            : n \in 1..RetypeRows }

InitRetype == InitTab(RetypeTables)

NextRetype ==
    \E name \in Range(loaded.columns), new_dtype \in Dtypes : SelectDtype(name, new_dtype)

SpecRetype == InitRetype /\ [][NextRetype]_vars

(***************************************************************************)
(* C3: the stages for which the user has made a choice                     *)
(***************************************************************************)
\* C3 as stated: the cleaned table is the result of the stages the user has
\* made a choice for, so an interaction that changes no stage's choice
\* (picking the download format) leaves the cleaned table as it was.
C3_Original ==
    [][(\E file_type \in FileTypes : SelectFileType(file_type))
          => run'.df_clean = run.df_clean]_vars

(***************************************************************************)
(* C4: the loaded table is not changed                                     *)
(***************************************************************************)
\* C4: after every run of the cleaning pipeline, whatever the choices and
\* whether or not a sub-step failed, the loaded table has the column names,
\* dtypes, rows and cells it had before.
C4_InputUnchanged == run.done => df = loaded

\* a run in which one column's retyping failed and another column of the
\* cleaned copy was changed
C4_Witness ==
    /\ run.done
    /\ \E err \in run.errors : err.kind = "TypeConversionError"
    /\ run.df_clean # loaded
    /\ df = loaded

(***************************************************************************)
(* C5: failures are local                                                  *)
(***************************************************************************)
\* C5 as stated: a failing action on one column is reported as a message
\* and leaves that column unchanged, and the run goes on to produce a
\* cleaned table.
C5_Original ==
    run.done =>
        /\ ~run.crashed
        /\ \A err \in run.errors :
              err.kind = "TypeConversionError" =>
                  \A c \in 1..NCols(run.df_clean) :
                      run.df_clean.columns[c] = err.column =>
                          Column(run.df_clean, c) = Column(run.pre_retype, c)

(***************************************************************************)
(* C9: duplicate-row removal with a key                                    *)
(***************************************************************************)
C9_Key(t) == IF ui.dup_cols = {} THEN AllCols(t) ELSE {ColIndex(t, n) : n \in ui.dup_cols}
C9_Agree(t, i, j, key) == \A c \in key : C7_SameCell(t.rows[i][c], t.rows[j][c])
C9_FirstOnly(before, after, key) ==
    /\ \A i, j \in 1..NRows(after) : C9_Agree(after, i, j, key) => i = j
    /\ \A i \in 1..NRows(before) :
          (\A j \in 1..(i - 1) : ~C9_Agree(before, i, j, key)) =>
              \E q \in 1..NRows(after) : after.rows[q] = before.rows[i]

\* C9 as stated: removal with key K leaves exactly the first row of every
\* combination of values on K, and it can be chosen on every table, also on
\* one whose rows are distinct on all columns but repeat on K.
C9_Original ==
    (run.done /\ ~run.crashed) =>
        /\ "drop_duplicates" \in run.clicked =>
              C9_FirstOnly(run.pre_dup, run.post_dup, C9_Key(run.pre_dup))
        /\ \A K \in SUBSET (1..NCols(run.pre_dup)) :
              (K # {} /\ \E i, j \in 1..NRows(run.pre_dup) :
                            i # j /\ C9_Agree(run.pre_dup, i, j, K))
                  => ui.dup_rendered

(***************************************************************************)
(* C10: retyping to boolean                                                *)
(***************************************************************************)
C10_IsTrue(c) == c \in {True, IntCell(1), FloatCell(1, 1), BoolCell(TRUE)}
C10_IsFalse(c) ==
    c \in {StrCell(<<"F", "a", "l", "s", "e">>), IntCell(0), FloatCell(0, 1), BoolCell(FALSE)}
C10_Outside(c) == ~IsNull(c) /\ ~C10_IsTrue(c) /\ ~C10_IsFalse(c)
C10_Chosen(c, new_dtype) == ui.dtype[run.df_clean.columns[c]] = new_dtype
C10_Error(c, new_dtype) ==
    [kind |-> "TypeConversionError", column |-> run.df_clean.columns[c],
     target |-> new_dtype] \in run.errors
C10_OthersRetyped(c) ==
    \A o \in 1..NCols(run.df_clean) :
        (o # c /\ C10_Chosen(o, "string")) =>
            /\ run.df_clean.dtypes[o] = "object"
            /\ \A r \in 1..NRows(run.df_clean) : run.df_clean.rows[r][o].k = "str"

\* C10 as stated: a column retyped to boolean that holds a non-missing cell
\* outside "True"/"False", 1/0 and the booleans fails: the error is
\* reported, the column is left unchanged and the other columns are still
\* retyped.
C10_Original ==
    (run.done /\ ~run.crashed) =>
        \A c \in 1..NCols(run.df_clean) :
            (/\ C10_Chosen(c, "boolean")
             /\ \E r \in 1..NRows(run.pre_retype) : C10_Outside(run.pre_retype.rows[r][c]))
            => /\ C10_Error(c, "boolean")
               /\ Column(run.df_clean, c) = Column(run.pre_retype, c)
               /\ C10_OthersRetyped(c)

\* C10 amended: retyping to boolean never fails: "True"/"False", 1/0 and the
\* booleans become booleans, every other cell becomes missing, no error is
\* reported, and the other columns are still retyped.
C10_Amended ==
    (run.done /\ ~run.crashed) =>
        \A c \in 1..NCols(run.df_clean) :
            C10_Chosen(c, "boolean") =>
                /\ ~C10_Error(c, "boolean")
                /\ run.df_clean.dtypes[c] = "boolean"
                /\ \A r \in 1..NRows(run.df_clean) :
                      run.df_clean.rows[r][c] =
                          IF C10_IsTrue(run.pre_retype.rows[r][c]) THEN BoolCell(TRUE)
                          ELSE IF C10_IsFalse(run.pre_retype.rows[r][c]) THEN BoolCell(FALSE)
                          ELSE NA
                /\ C10_OthersRetyped(c)

\* a string column holding "True" and "1" was retyped to boolean, "1" came
\* out missing, and the other column was retyped to string
C10_Witness ==
    /\ run.done /\ ~run.crashed
    /\ C10_Chosen(2, "boolean") /\ C10_Chosen(1, "string")
    /\ Column(run.pre_retype, 2) = <<True, One>>
    /\ Column(run.df_clean, 2) = <<BoolCell(TRUE), NA>>
    /\ run.df_clean.dtypes[1] = "object"

====
